---- MODULE Spec2Model ----
(***************************************************************************)
(* Model of sigmadsp/sigmastudio/header.py: Field, PacketHeader and        *)
(* PacketHeaderGenerator.new_header_from_operation_byte.                   *)
(*                                                                         *)
(* A PacketHeader is modelled by the sequence of the values of its         *)
(* OrderedDict `_fields` (one record per Field, in dictionary order).      *)
(* Every public call is one action; `ret` records the last call, its       *)
(* layout arguments and the exception it raised ("none" when it returned). *)
(* `accepted` is TRUE as long as no add / add_field on the header has      *)
(* raised MemoryError.  The read-only properties (size, is_continuous,     *)
(* as_bytes, the semantic predicates) are operators on the stored fields.  *)
(***************************************************************************)
EXTENDS Integers, Sequences, FiniteSets, TLC

VARIABLES fields, ret, accepted

vars == <<fields, ret, accepted>>

(***************************************************************************)
(* Bounds of the model.                                                    *)
(***************************************************************************)
\* Largest offset / size of the Fields handed to add_field under Spec.
MaxOffset == 5
MaxSize == 4
\* Largest offset of the Fields handed to add_field under SpecCodec.
CodecMaxOffset == 2
\* Longest buffer handed to parse.
MaxDataLen == 4

(***************************************************************************)
(* OperationKey (an Enum, not an IntEnum).                                 *)
(***************************************************************************)
READ_REQUEST_KEY == 10
READ_RESPONSE_KEY == 11
WRITE_KEY == 9

OperationKey == {READ_REQUEST_KEY, READ_RESPONSE_KEY, WRITE_KEY}

\* The field names the model uses, two of VALID_FIELD_NAMES.
Names == {"operation", "safeload"}

\* A name of VALID_FIELD_NAMES that no modelled header holds.
AbsentName == "reserved"

(***************************************************************************)
(* Python objects and their ==.  Objects of different classes never        *)
(* compare equal: int.__eq__, str.__eq__, the dataclass __eq__ of Field    *)
(* and Enum.__eq__ all answer NotImplemented for a foreign class, and      *)
(* Python then falls back to identity.                                     *)
(***************************************************************************)
IntObj(n) == [type |-> "int", val |-> <<n>>]

StrObj(s) == [type |-> "str", val |-> <<s>>]

EnumObj(k) == [type |-> "OperationKey", val |-> <<k>>]

\* The dataclass __eq__ compares the declared attributes name, offset, size, value.
FieldObj(f) == [type |-> "Field", val |-> <<f.name, f.offset, f.size, f.value>>]

PyEq(a, b) == a.type = b.type /\ a.val = b.val

(***************************************************************************)
(* Field                                                                   *)
(***************************************************************************)
\* Field.__post_init__ raises ValueError on a negative size or offset.
PostInitRaises(offset, size) == size < 0 \/ offset < 0

\* A constructed Field; `end` is computed once, in __post_init__.
Field(name, offset, size, value) ==
    [name |-> name, offset |-> offset, size |-> size, value |-> value,
     end |-> offset + size - 1]

(***************************************************************************)
(* PacketHeader: storage                                                   *)
(***************************************************************************)
\* as_list(): list(self._fields.values()); __iter__ yields the same sequence.
as_list(fs) == [i \in 1..Len(fs) |-> fs[i]]

\* names: [field.name for field in self]
names(fs) == [i \in 1..Len(fs) |-> as_list(fs)[i].name]

\* __contains__(key): key in self._fields, a lookup among the dict's keys,
\* which are the field names (str objects).
Contains(fs, key) == \E i \in 1..Len(fs) : PyEq(StrObj(fs[i].name), key)

\* self._fields[name] for a name that is a key (KeyError otherwise).
HasKey(fs, name) == \E i \in 1..Len(fs) : fs[i].name = name

GetItem(fs, name) == fs[CHOOSE i \in 1..Len(fs) : fs[i].name = name]

\* self._fields[field.name] = field: an existing key keeps its position,
\* a new key is appended.
DictSet(fs, f) ==
    IF HasKey(fs, f.name)
    THEN [i \in 1..Len(fs) |-> IF fs[i].name = f.name THEN f ELSE fs[i]]
    ELSE Append(fs, f)

\* sorted() is stable: an item goes behind every item whose key is <= its own.
StableInsert(sorted, f) ==
    LET p == Cardinality({i \in 1..Len(sorted) : sorted[i].offset <= f.offset})
    IN SubSeq(sorted, 1, p) \o <<f>> \o SubSeq(sorted, p + 1, Len(sorted))

RECURSIVE SortedByOffset(_)
SortedByOffset(fs) ==
    IF fs = <<>> THEN <<>>
    ELSE StableInsert(SortedByOffset(SubSeq(fs, 1, Len(fs) - 1)), fs[Len(fs)])

\* A plausible slip: the re-sort is left out.
sort_fields_by_offset_unsorted(fs) == fs

\* _sort_fields_by_offset()
sort_fields_by_offset(fs) == SortedByOffset(fs)

\* _check_for_overlaps(): TRUE when it raises MemoryError.
check_for_overlaps(fs) ==
    LET fields_entries == as_list(fs)
    IN \E i \in 1..(Len(fields_entries) - 1) :
         ~(fields_entries[i].end <= fields_entries[i + 1].offset)

\* add_field(field): the header afterwards and the exception raised.
add_field(fs, f) ==
    IF ~Contains(fs, FieldObj(f))
    THEN LET stored == sort_fields_by_offset(DictSet(fs, f))
         IN [fields |-> stored,
             exc |-> IF check_for_overlaps(stored) THEN "MemoryError" ELSE "none"]
    ELSE [fields |-> fs, exc |-> "none"]

(***************************************************************************)
(* PacketHeader: derived properties                                        *)
(***************************************************************************)
RECURSIVE SumSizes(_)
SumSizes(fs) == IF fs = <<>> THEN 0 ELSE fs[1].size + SumSizes(Tail(fs))

\* A plausible slip: the number of fields instead of the sum of their sizes.
size_count(fs) == Len(fs)

\* size: sum([field.size for field in self])
size(fs) == SumSizes(as_list(fs))

RECURSIVE ContinuousFrom(_, _)
ContinuousFrom(entries, i) ==
    IF i >= Len(entries) THEN TRUE
    ELSE IF (entries[i].end + 1) # entries[i + 1].offset THEN FALSE
    ELSE ContinuousFrom(entries, i + 1)

\* A plausible slip: the same boundary as the overlap check.
is_continuous_end(fs) ==
    \A i \in 1..(Len(fs) - 1) : fs[i].end = fs[i + 1].offset

\* is_continuous
is_continuous(fs) == ContinuousFrom(as_list(fs), 1)

(***************************************************************************)
(* The byte codec of sigmadsp.helper.conversion, which header.py imports.  *)
(* Modelled from the specification: a big-endian codec that encodes and    *)
(* decodes an integer of a given width at a given offset.  The encoding    *)
(* of a value that does not fit its width is left open there, so the       *)
(* model encodes only values that fit (see Fits).                          *)
(***************************************************************************)
ByteBase == 256

Fits(value, width) == value >= 0 /\ value < ByteBase ^ width

\* The `width` big-endian digits of value, most significant first.
BigEndian(value, width) ==
    [i \in 1..width |-> (value \div (ByteBase ^ (width - i))) % ByteBase]

RECURSIVE FromBigEndian(_)
FromBigEndian(bytes) ==
    IF bytes = <<>> THEN 0
    ELSE FromBigEndian(SubSeq(bytes, 1, Len(bytes) - 1)) * ByteBase
         + bytes[Len(bytes)]

\* int_to_bytes(value, buffer, offset, length): the field occupies
\* [offset, offset + length) of the buffer, which grows when it is too short.
int_to_bytes(value, buffer, offset, length) ==
    LET n == IF length = 0 THEN Len(buffer)
             ELSE IF Len(buffer) > offset + length THEN Len(buffer)
             ELSE offset + length
    IN [k \in 1..n |->
          IF k > offset /\ k <= offset + length
          THEN BigEndian(value, length)[k - offset]
          ELSE IF k <= Len(buffer) THEN buffer[k] ELSE 0]

\* bytes_to_int(data, offset, length): the bytes of [offset, offset + length)
\* that data holds, decoded big-endian.
bytes_to_int(data, offset, length) ==
    LET last == IF offset + length < Len(data) THEN offset + length ELSE Len(data)
    IN FromBigEndian(SubSeq(data, offset + 1, last))

(***************************************************************************)
(* PacketHeader: serialize and parse                                       *)
(***************************************************************************)
\* Whether every stored value fits the size of its field.
AllFit(fs) == \A i \in 1..Len(fs) : Fits(fs[i].value, fs[i].size)

RECURSIVE WriteFields(_, _)
WriteFields(entries, buffer) ==
    IF entries = <<>> THEN buffer
    ELSE WriteFields(Tail(entries),
                     int_to_bytes(entries[1].value, buffer,
                                  entries[1].offset, entries[1].size))

\* as_bytes(): every field written, in iteration order, into an empty bytearray.
as_bytes(fs) == WriteFields(as_list(fs), <<>>)

\* A plausible slip: the length check accepts a buffer that is too long.
parse_longer(fs, data) ==
    IF Len(data) < size(fs)
    THEN [fields |-> fs, exc |-> "ValueError"]
    ELSE [fields |-> [i \in 1..Len(fs) |->
                        [fs[i] EXCEPT !.value =
                            bytes_to_int(data, fs[i].offset, fs[i].size)]],
          exc |-> "none"]

\* A plausible slip: each field is read from the start of the buffer.
parse_from_start(fs, data) ==
    IF Len(data) # size(fs)
    THEN [fields |-> fs, exc |-> "ValueError"]
    ELSE [fields |-> [i \in 1..Len(fs) |->
                        [fs[i] EXCEPT !.value = bytes_to_int(data, 0, fs[i].size)]],
          exc |-> "none"]

\* parse(data): the header afterwards and the exception raised.
parse(fs, data) ==
    IF Len(data) # size(fs)
    THEN [fields |-> fs, exc |-> "ValueError"]
    ELSE [fields |-> [i \in 1..Len(fs) |->
                        [fs[i] EXCEPT !.value =
                            bytes_to_int(data, fs[i].offset, fs[i].size)]],
          exc |-> "none"]

\* __setitem__(name, value): the header afterwards and the exception raised.
setitem(fs, name, value) ==
    IF ~(\E i \in 1..Len(fs) : names(fs)[i] = name)
    THEN [fields |-> fs, exc |-> "ValueError"]
    ELSE [fields |-> [i \in 1..Len(fs) |->
                        IF fs[i].name = name
                        THEN [fs[i] EXCEPT !.value = value] ELSE fs[i]],
          exc |-> "none"]

(***************************************************************************)
(* PacketHeader: semantic predicates.  Each answers [exc, val]: exc is     *)
(* "KeyError" when self._fields[...] misses the key.  A field value is an  *)
(* int (the declared type, and what parse stores); it is compared with an  *)
(* OperationKey member.                                                    *)
(***************************************************************************)
OperationIs(fs, key) ==
    IF ~HasKey(fs, "operation") THEN [exc |-> "KeyError", val |-> FALSE]
    ELSE [exc |-> "none",
          val |-> PyEq(IntObj(GetItem(fs, "operation").value), EnumObj(key))]

is_write_request(fs) == OperationIs(fs, WRITE_KEY)

is_read_request(fs) == OperationIs(fs, READ_REQUEST_KEY)

is_read_response(fs) == OperationIs(fs, READ_RESPONSE_KEY)

\* self.is_write_request and self._fields["safeload"].value == 1
is_safeload(fs) ==
    IF is_write_request(fs).exc # "none" \/ ~is_write_request(fs).val
    THEN is_write_request(fs)
    ELSE IF ~HasKey(fs, "safeload") THEN [exc |-> "KeyError", val |-> FALSE]
    ELSE [exc |-> "none",
          val |-> PyEq(IntObj(GetItem(fs, "safeload").value), IntObj(1))]

\* self.is_write_request or self.is_read_response
carries_payload(fs) ==
    IF is_write_request(fs).exc # "none" \/ is_write_request(fs).val
    THEN is_write_request(fs)
    ELSE is_read_response(fs)

(***************************************************************************)
(* PacketHeaderGenerator                                                   *)
(***************************************************************************)
\* The abstract factories: the model names the factory whose result is returned.
new_write_header == "new_write_header"

new_read_request_header == "new_read_request_header"

new_read_response_header == "new_read_response_header"

\* A plausible slip: the first two branches test each other's key.
new_header_from_operation_byte_swapped(operation_byte) ==
    IF Len(operation_byte) # 1
    THEN [exc |-> "AssertionError", invoked |-> <<>>]
    ELSE LET value == bytes_to_int(operation_byte, 0, 1)
         IN IF value \notin OperationKey
            THEN [exc |-> "ValueError", invoked |-> <<>>]
            ELSE IF PyEq(EnumObj(value), EnumObj(READ_RESPONSE_KEY))
            THEN [exc |-> "none", invoked |-> <<new_read_request_header>>]
            ELSE IF PyEq(EnumObj(value), EnumObj(READ_REQUEST_KEY))
            THEN [exc |-> "none", invoked |-> <<new_read_response_header>>]
            ELSE IF PyEq(EnumObj(value), EnumObj(WRITE_KEY))
            THEN [exc |-> "none", invoked |-> <<new_write_header>>]
            ELSE [exc |-> "ValueError", invoked |-> <<>>]

\* new_header_from_operation_byte(operation_byte): the exception raised and the
\* factories invoked, in order; the result of the last one is returned.
\* OperationKey(value) raises ValueError for a value that no member has.
new_header_from_operation_byte(operation_byte) ==
    IF Len(operation_byte) # 1
    THEN [exc |-> "AssertionError", invoked |-> <<>>]
    ELSE LET value == bytes_to_int(operation_byte, 0, 1)
         IN IF value \notin OperationKey
            THEN [exc |-> "ValueError", invoked |-> <<>>]
            ELSE IF PyEq(EnumObj(value), EnumObj(READ_REQUEST_KEY))
            THEN [exc |-> "none", invoked |-> <<new_read_request_header>>]
            ELSE IF PyEq(EnumObj(value), EnumObj(READ_RESPONSE_KEY))
            THEN [exc |-> "none", invoked |-> <<new_read_response_header>>]
            ELSE IF PyEq(EnumObj(value), EnumObj(WRITE_KEY))
            THEN [exc |-> "none", invoked |-> <<new_write_header>>]
            ELSE [exc |-> "ValueError", invoked |-> <<>>]

(***************************************************************************)
(* Inputs                                                                  *)
(***************************************************************************)
\* Values passed to add.
AddValues == {0, 1}

\* Fields handed to add_field under Spec: Field(name, offset, size), the value
\* left at its default.
LayoutFields ==
    {Field(n, o, s, 0) : n \in Names, o \in 0..MaxOffset, s \in 0..MaxSize}

\* The (offset, size) pairs passed to add, two of them rejected by Field().
AddArgs == {<<0, 0>>, <<0, 1>>, <<1, 0>>, <<1, 1>>, <<-1, 0>>, <<0, -1>>}

\* Fields handed to add_field under SpecCodec: one and two bytes wide, the
\* widths at which byte order shows (zero-size fields are left to Spec).
CodecFields ==
    {Field(n, o, s, 0) : n \in Names, o \in 0..CodecMaxOffset, s \in {1, 2}}

\* Values assigned through header[name] = value.
SetValues == {1, WRITE_KEY, ByteBase}

\* Buffers handed to parse: an operation byte followed by bytes of value 1.
ParseInputs ==
    UNION {{[i \in 1..n |-> IF i = 1 THEN b ELSE 1] : b \in OperationKey} :
           n \in 0..MaxDataLen}

\* Arguments of new_header_from_operation_byte: every single byte, and
\* arguments that are not one byte long.
DispatchInputs ==
    {<<b>> : b \in 0..(ByteBase - 1)} \cup {<<>>, <<WRITE_KEY, READ_REQUEST_KEY>>}

(***************************************************************************)
(* The calls                                                               *)
(***************************************************************************)
NoArg == [name |-> "", offset |-> 0, size |-> 0]

NoCall ==
    [op |-> "__init__", arg |-> NoArg, data |-> <<>>, exc |-> "none",
     invoked |-> <<>>]

\* PacketHeader([]): an empty OrderedDict.
Init ==
    /\ fields = <<>>
    /\ ret = NoCall
    /\ accepted = TRUE

\* header.add_field(f), f a constructed Field.
AddField(f) ==
    LET r == add_field(fields, f)
    IN /\ fields' = r.fields
       /\ ret' = [NoCall EXCEPT !.op = "add_field",
                                !.arg = [name |-> f.name, offset |-> f.offset,
                                         size |-> f.size],
                                !.exc = r.exc]
       /\ accepted' = (accepted /\ r.exc = "none")

\* header.add(name, offset, size, value): Field(...) may raise before add_field runs.
Add(name, offset, width, value) ==
    LET r == IF PostInitRaises(offset, width)
             THEN [fields |-> fields, exc |-> "ValueError"]
             ELSE add_field(fields, Field(name, offset, width, value))
    IN /\ fields' = r.fields
       /\ ret' = [NoCall EXCEPT !.op = "add",
                                !.arg = [name |-> name, offset |-> offset,
                                         size |-> width],
                                !.exc = r.exc]
       /\ accepted' = (accepted /\ r.exc # "MemoryError")

\* header[name] = value
SetItem(name, value) ==
    LET r == setitem(fields, name, value)
    IN /\ fields' = r.fields
       /\ ret' = [NoCall EXCEPT !.op = "__setitem__",
                                !.arg = [NoArg EXCEPT !.name = name],
                                !.exc = r.exc]
       /\ UNCHANGED accepted

\* header.parse(data)
Parse(data) ==
    LET r == parse(fields, data)
    IN /\ fields' = r.fields
       /\ ret' = [NoCall EXCEPT !.op = "parse", !.data = data, !.exc = r.exc]
       /\ UNCHANGED accepted

\* generator.new_header_from_operation_byte(operation_byte)
NewHeaderFromOperationByte(operation_byte) ==
    LET r == new_header_from_operation_byte(operation_byte)
    IN /\ ret' = [NoCall EXCEPT !.op = "new_header_from_operation_byte",
                                !.data = operation_byte, !.exc = r.exc,
                                !.invoked = r.invoked]
       /\ UNCHANGED <<fields, accepted>>

(***************************************************************************)
(* Specifications                                                          *)
(***************************************************************************)
\* Building a layout.
Next ==
    \/ \E f \in LayoutFields : AddField(f)
    \/ \E n \in Names, a \in AddArgs, v \in AddValues : Add(n, a[1], a[2], v)

Spec == Init /\ [][Next]_vars

\* Building a layout, then assigning, serializing and parsing values.
NextCodec ==
    \/ \E f \in CodecFields : AddField(f)
    \/ \E n \in Names \cup {AbsentName}, v \in SetValues : SetItem(n, v)
    \/ \E data \in ParseInputs \cup (IF AllFit(fields) THEN {as_bytes(fields)} ELSE {}) :
         Parse(data)

SpecCodec == Init /\ [][NextCodec]_vars

\* Dispatch on the operation byte.
NextDispatch == \E b \in DispatchInputs : NewHeaderFromOperationByte(b)

SpecDispatch == Init /\ [][NextDispatch]_vars

(***************************************************************************)
(* Vocabulary of the claims                                                *)
(***************************************************************************)
\* The layout of a header: (name, offset, size) of every field, in order.
Layout(fs) == [i \in 1..Len(fs) |-> <<fs[i].name, fs[i].offset, fs[i].size>>]

\* Whether a field with the identity (name, offset, size) of `a` is stored.
HasIdentity(fs, a) ==
    \E i \in 1..Len(fs) :
        fs[i].name = a.name /\ fs[i].offset = a.offset /\ fs[i].size = a.size

\* The last occupied byte of a field, from its offset and size.
LastByte(f) == f.offset + f.size - 1

\* Whether the first field, if any, starts at byte 0.
StartsAtZero(fs) == fs = <<>> \/ fs[1].offset = 0

\* size, as_bytes() and the field ranges agree: the buffer is `size` bytes long,
\* `size` is the sum of the field sizes, and every field's range lies in the
\* buffer and holds the field's value big-endian.
ByteLayoutHolds(fs) ==
    /\ size(fs) = SumSizes(fs)
    /\ Len(as_bytes(fs)) = size(fs)
    /\ \A i \in 1..Len(fs) :
         /\ fs[i].offset + fs[i].size <= size(fs)
         /\ fs[i].offset + fs[i].size <= Len(as_bytes(fs))
         /\ FromBigEndian(SubSeq(as_bytes(fs), fs[i].offset + 1,
                                 fs[i].offset + fs[i].size)) = fs[i].value

(***************************************************************************)
(* Claims checked under Spec                                               *)
(***************************************************************************)
\* C1: add_field(f) / add(...) with an identity (name, offset, size) that the
\* header already stores raises nothing and leaves the stored fields and their
\* values unchanged, whatever value f carries.
C1_IdempotentInsert ==
    [][(ret'.op \in {"add", "add_field"} /\ HasIdentity(fields, ret'.arg))
         => (ret'.exc = "none" /\ fields' = fields)]_vars

\* C2: in a header built by calls that all returned without a layout error,
\* no byte position is claimed by two fields (what the strict comparison of
\* the earlier field's last byte with the later field's offset is to ensure).
C2_NoOverlap ==
    accepted =>
        \A i, j \in 1..Len(fields) :
            i < j =>
                \A b \in fields[i].offset..LastByte(fields[i]) :
                    b \notin fields[j].offset..LastByte(fields[j])

\* C3: when add / add_field raises the layout error, the stored fields are
\* exactly what they were before the call.
C3_RejectBeforeCommit ==
    [][ret'.exc = "MemoryError" => fields' = fields]_vars

\* C8: after any sequence of add / add_field calls, ignored or raising ones
\* included, iteration and as_list() yield the fields in ascending order of
\* offset, each stored field once, with unique names.
C8_OffsetOrder ==
    /\ \A i, j \in 1..Len(as_list(fields)) :
         i < j => as_list(fields)[i].offset <= as_list(fields)[j].offset
    /\ \A i, j \in 1..Len(as_list(fields)) :
         i # j => as_list(fields)[i].name # as_list(fields)[j].name
    /\ names(fields) = [i \in 1..Len(fields) |-> fields[i].name]

\* C8 witness: a call that raised left two fields stored, the field of the
\* call in front of a field of larger offset.
C8_Witness ==
    /\ ret.op = "add_field" /\ ret.exc = "MemoryError"
    /\ Len(fields) = 2
    /\ fields[1].name = ret.arg.name
    /\ fields[1].offset < fields[2].offset

\* C10: is_continuous is true exactly when earlier.end + 1 = later.offset for
\* every adjacent pair (so for no or one field); fields (0,4),(4,1) are
\* continuous with size 5, fields (0,4),(5,1) are not.
C10_Continuity ==
    /\ is_continuous(fields) <=>
         \A i \in 1..(Len(fields) - 1) :
             LastByte(fields[i]) + 1 = fields[i + 1].offset
    /\ Len(fields) <= 1 => is_continuous(fields)
    /\ Layout(fields) = <<<<"operation", 0, 4>>, <<"safeload", 4, 1>>>>
         => (is_continuous(fields) /\ size(fields) = 5)
    /\ Layout(fields) = <<<<"operation", 0, 4>>, <<"safeload", 5, 1>>>>
         => ~is_continuous(fields)

\* C10 witness: the header with fields (0,4),(4,1) has been built.
C10_Witness ==
    /\ Layout(fields) = <<<<"operation", 0, 4>>, <<"safeload", 4, 1>>>>
    /\ ret.exc = "none"
    /\ is_continuous(fields)

(***************************************************************************)
(* Claims checked under SpecCodec                                          *)
(***************************************************************************)
\* C4, as claimed: for every header accepted by add whose values fit their
\* fields, parse(as_bytes()) succeeds and leaves every value as it was.
C4_RoundTrip ==
    [][(accepted /\ AllFit(fields) /\ ret'.op = "parse"
          /\ ret'.data = as_bytes(fields))
         => (ret'.exc = "none" /\ fields' = fields)]_vars

\* C4, amended: for every header that is continuous and starts at byte 0 and
\* whose values fit their fields, parse(as_bytes()) succeeds and leaves every
\* value as it was.
C4_RoundTripContinuous ==
    [][(is_continuous(fields) /\ StartsAtZero(fields) /\ AllFit(fields)
          /\ ret'.op = "parse" /\ ret'.data = as_bytes(fields))
         => (ret'.exc = "none" /\ fields' = fields)]_vars

\* C4 witness: parse has returned from the serialized form of a continuous
\* two-field header that starts at byte 0; the leading byte 1 is in no other
\* buffer handed to parse.
C4_Witness ==
    /\ ret.op = "parse" /\ ret.exc = "none"
    /\ Len(fields) = 2
    /\ is_continuous(fields) /\ StartsAtZero(fields) /\ AllFit(fields)
    /\ ret.data = as_bytes(fields)
    /\ fields[1].size = 1 /\ fields[1].value = 1
    /\ fields[2].value = 9

\* C5: parse(data) with len(data) # size raises and changes no field; with
\* len(data) = size it returns and changes values only, never the layout.
C5_LengthEnforcement ==
    [][ret'.op = "parse" =>
         /\ Len(ret'.data) # SumSizes(fields)
              => (ret'.exc = "ValueError" /\ fields' = fields)
         /\ Len(ret'.data) = SumSizes(fields)
              => (ret'.exc = "none" /\ Layout(fields') = Layout(fields))]_vars

\* C5 witness: parse has raised on a header that holds a value other than 0.
C5_Witness ==
    /\ ret.op = "parse" /\ ret.exc = "ValueError"
    /\ Len(fields) = 2
    /\ Len(ret.data) = size(fields) - 1
    /\ fields[1].value # 0

\* C6: with operation and safeload fields, operation = 0x09 and safeload = 1
\* make is_write_request, is_safeload and carries_payload true; operation =
\* 0x0A makes is_read_request true and carries_payload false; operation =
\* 0x0B makes is_read_response and carries_payload true.
C6_PredicateConsistency ==
    (HasKey(fields, "operation") /\ HasKey(fields, "safeload")) =>
        LET operation == GetItem(fields, "operation").value
            safeload == GetItem(fields, "safeload").value
        IN /\ (operation = 9 /\ safeload = 1)
                => /\ is_write_request(fields).val
                   /\ is_safeload(fields).val
                   /\ carries_payload(fields).val
           /\ operation = 10
                => (is_read_request(fields).val /\ ~carries_payload(fields).val)
           /\ operation = 11
                => (is_read_response(fields).val /\ carries_payload(fields).val)

\* C9, as claimed: for every header built by accepted add calls, size is the
\* sum of the field sizes, as_bytes() is size bytes long, and every field's
\* range lies in it and holds the field's value big-endian.
C9_ByteLayout == (accepted /\ AllFit(fields)) => ByteLayoutHolds(fields)

\* C9, amended: the same, for every header that is continuous and starts at
\* byte 0 and whose values fit their fields.
C9_ByteLayoutContinuous ==
    (is_continuous(fields) /\ StartsAtZero(fields) /\ AllFit(fields))
        => ByteLayoutHolds(fields)

\* C9 witness: a continuous two-field header from byte 0 whose second field
\* is two bytes wide and holds a value of two significant bytes.
C9_Witness ==
    /\ Len(fields) = 2
    /\ is_continuous(fields) /\ StartsAtZero(fields) /\ AllFit(fields)
    /\ fields[2].size = 2 /\ fields[2].value > 255
    /\ fields[2].value % 256 # fields[2].value \div 256

====
